---- MODULE Spec2Model ----
(***************************************************************************)
(* BetterEncryptedJSONStorage: a write-behind storage engine.  One caller   *)
(* thread invokes the public methods of up to two engine objects; every     *)
(* engine opened in 'r+'/'rb+' owns one background thread (__file_writer).  *)
(* Files are byte sequences; documents are small integers whose JSON text   *)
(* has a length that depends on the document.                               *)
(***************************************************************************)
EXTENDS Integers, Sequences, FiniteSets, TLC

\* ---- bounds of the model ------------------------------------------------
MaxCalls == 4          \* public-method calls the caller makes in one run
MaxDoc == 2            \* documents are 1..MaxDoc

\* ---- values taken from the source ---------------------------------------
None == 0              \* Python None: "no document" / no key
Garbage == -1          \* stands for "the decode chain raised"
Engines == {1, 2}
Keys == {1}               \* key material given to __init__
NewKeys == {2}            \* key material given to change_encryption_key
Docs == 1 .. MaxDoc
NoFile == << -1 >>     \* the path does not exist
Db == "db"
DbClone == "db_clone"
AccessModes == {"r", "rb", "r+", "rb+", "w"}
ValidModes == {"r", "rb", "r+", "rb+"}
WritingModes == {"r+", "rb+"}

\* open(path, mode, encoding=None): without 'b' the handle is a text handle
IsText(m) == m \in {"r", "r+", "w"}

\* any(character in mode for character in ("+", "w", "a"))
Touches(m) == m \in {"r+", "rb+", "w"}

\* ---- the transform pipeline ---------------------------------------------
\* orjson.dumps: None is the text null (one byte here), document d is d bytes d
Dumps(d) == IF d = None THEN << 110 >> ELSE [i \in 1 .. d |-> d]

\* orjson.loads: the inverse of Dumps, Garbage (JSONDecodeError) elsewhere
Loads(b) ==
    IF b = << 110 >> THEN None
    ELSE IF Len(b) \in Docs /\ (\A i \in 1 .. Len(b) : b[i] = Len(b)) THEN Len(b)
    ELSE Garbage

\* blosc2.compress: a header followed by the payload
Compress(b) == << 255 >> \o b

\* blosc2.decompress: << Garbage >> stands for the error on a bad header
Decompress(b) == IF Len(b) > 0 /\ b[1] = 255 THEN Tail(b) ELSE << Garbage >>

\* __reset_hash: the digest of the key material
ResetHash(k) == (k * 31 + 7) % 256

\* key stream of the cipher built in __init__ (fixed nonce): byte i of the stream
KeyStream(k, i) == (k * 17 + i * 7) % 256

\* encryptor.update(b) of a context that has already processed pos bytes
EncryptorUpdate(k, pos, b) == [i \in 1 .. Len(b) |-> (b[i] + KeyStream(k, pos + i)) % 256]

\* decryptor.update(b) of a context that has already processed pos bytes
DecryptorUpdate(k, pos, b) == [i \in 1 .. Len(b) |-> (b[i] + 256 - KeyStream(k, pos + i)) % 256]

\* the four-way conditional of __file_writer
Encode(d, comp, enc, k, pos) ==
    IF comp /\ enc THEN EncryptorUpdate(k, pos, Compress(Dumps(d)))
    ELSE IF enc THEN EncryptorUpdate(k, pos, Dumps(d))
    ELSE IF comp THEN Compress(Dumps(d))
    ELSE Dumps(d)

\* the four-way conditional of load; Garbage when a stage raises
Decode(b, comp, enc, k, pos) ==
    LET plain == IF enc THEN DecryptorUpdate(k, pos, b) ELSE b
        body == IF comp THEN Decompress(plain) ELSE plain
    IN  IF body = << Garbage >> THEN Garbage ELSE Loads(body)

\* ---- file primitives ----------------------------------------------------
\* handle.write(b) + flush() at cursor pos (a gap past the end reads as zeros)
WriteAt(f, pos, b) ==
    LET n == IF pos + Len(b) > Len(f) THEN pos + Len(b) ELSE Len(f)
    IN  [i \in 1 .. n |->
            IF i > pos /\ i <= pos + Len(b) THEN b[i - pos]
            ELSE IF i <= Len(f) THEN f[i] ELSE 0]

\* handle.truncate() at cursor pos
TruncateAt(f, pos) == [i \in 1 .. pos |-> IF i <= Len(f) THEN f[i] ELSE 0]

\* handle.read() from cursor pos to the end
ReadFrom(f, pos) == IF pos >= Len(f) THEN << >> ELSE SubSeq(f, pos + 1, Len(f))

\* load() of an engine newly opened with the configuration of E
DecodeFresh(b, E) == Decode(b, E.compression, E.encryption, E.raw_encryption_key, 0)

\* ---- state --------------------------------------------------------------
VARIABLES
    files,     \* path -> bytes, or NoFile
    eng,       \* engine -> the object's fields and its writer thread
    cop,       \* the method the caller is inside ("none" between calls)
    cpc,       \* the caller's position inside that method
    ce,        \* the engine the caller is operating on
    last,      \* outcome of the call that returned last
    ncalls,    \* calls made so far
    ck,        \* locals of change_encryption_key
    hist       \* history per engine, read by the properties only

vars == << files, eng, cop, cpc, ce, last, ncalls, ck, hist >>

\* the object before __init__ has run
NoEngine ==
    [ st |-> "none", _mode |-> "r", encryption |-> FALSE, compression |-> FALSE,
      raw_encryption_key |-> None, _data |-> None, _changed |-> FALSE,
      _running |-> FALSE, locked |-> FALSE, _handle |-> "none", pos |-> 0,
      encPos |-> 0, decPos |-> 0, fpc |-> "none", serialized |-> << >> ]

NoHist ==
    [ tried |-> FALSE, wrote |-> None, emptyAtOpen |-> FALSE, loaded |-> FALSE, closes |-> 0,
      fdoc |-> None, keyless |-> FALSE, moved |-> FALSE ]

NoLast == [ op |-> "none", res |-> "none", val |-> None, exc |-> "none" ]

NoCk == [ key |-> None, before |-> << >>, flushed |-> FALSE ]

Init ==
    /\ files \in [ {Db, DbClone} -> {NoFile, << >>, << 0 >>} ]
    /\ files[Db] \in {NoFile, << >>}
    /\ eng = [e \in Engines |-> NoEngine]
    /\ cop = "none"
    /\ cpc = "idle"
    /\ ce = 1
    /\ last = NoLast
    /\ ncalls = 0
    /\ ck = NoCk
    /\ hist = [e \in Engines |-> NoHist]

\* the caller is between two calls and may make another one
CanCall == cop = "none" /\ cpc = "idle" /\ ncalls < MaxCalls

Return(op, res, val) ==
    /\ last' = [ op |-> op, res |-> res, val |-> val, exc |-> "none" ]
    /\ cop' = "none"
    /\ cpc' = "idle"

\* ---- __init__ -----------------------------------------------------------
\* variant: __init__ starts self._data from a document instead of None
NewEngineWithDocument(m, comp, enc, k) ==
    [ NoEngine EXCEPT
        !.st = "init",
        !._mode = m,
        !.encryption = enc,
        !.compression = comp,
        !.raw_encryption_key = IF enc THEN ResetHash(k) ELSE None,
        !._data = Loads(Dumps(1)),
        !._running = (m \in ValidModes),
        !.locked = (m \notin ValidModes),
        !._handle = "open" ]

\* the fields __init__ sets before it opens the file; an access mode outside
\* the four valid ones has close() run first (flag polled, _running cleared,
\* shutdown lock taken, no handle yet to close)
NewEngine(m, comp, enc, k) ==
    [ NoEngine EXCEPT
        !.st = "init",
        !._mode = m,
        !.encryption = enc,
        !.compression = comp,
        !.raw_encryption_key = IF enc THEN ResetHash(k) ELSE None,
        !._data = None,
        !._running = (m \in ValidModes),
        !.locked = (m \notin ValidModes),
        !._handle = "open" ]

\* variant: __init__ without the check of the encryption key
OpenNoKeyCheck(e, m, comp, enc, k) ==
    /\ CanCall
    /\ eng[e].st = "none"
    /\ \A o \in Engines : o < e => eng[o].st # "none"
    /\ ~enc => k = None
    /\ ncalls' = ncalls + 1
    /\ ce' = e
    /\ UNCHANGED ck
    /\ IF ~Touches(m) /\ files[Db] = NoFile
       THEN /\ Return("open", "FileNotFoundError", None)
            /\ UNCHANGED << files, eng, hist >>
       ELSE /\ hist' = [hist EXCEPT ![e].tried = TRUE,
                                    ![e].keyless = (enc /\ k = None)]
            /\ files' = [files EXCEPT ![Db] =
                            IF m = "w" \/ files[Db] = NoFile THEN << >> ELSE @]
            /\ eng' = [eng EXCEPT ![e] = NewEngine(m, comp, enc, k)]
            /\ cop' = "open"
            /\ cpc' = "load_size"
            /\ last' = NoLast

\* __init__ up to and including __reset_handle(); load() follows
Open(e, m, comp, enc, k) ==
    /\ CanCall
    /\ eng[e].st = "none"
    /\ \A o \in Engines : o < e => eng[o].st # "none"
    /\ ~enc => k = None
    /\ ncalls' = ncalls + 1
    /\ ce' = e
    /\ UNCHANGED ck
    /\ IF enc /\ k = None
       THEN /\ Return("open", "AttributeError", None)
            /\ UNCHANGED << files, eng, hist >>
       ELSE IF ~Touches(m) /\ files[Db] = NoFile
       THEN /\ Return("open", "FileNotFoundError", None)
            /\ UNCHANGED << files, eng, hist >>
       ELSE /\ hist' = [hist EXCEPT ![e].tried = TRUE,
                                    ![e].keyless = (enc /\ k = None)]
            /\ files' = [files EXCEPT ![Db] =
                            IF m = "w" \/ files[Db] = NoFile THEN << >> ELSE @]
            /\ eng' = [eng EXCEPT ![e] = NewEngine(m, comp, enc, k)]
            /\ cop' = "open"
            /\ cpc' = "load_size"
            /\ last' = NoLast

\* ---- load ---------------------------------------------------------------
\* the writer thread of e is past the seek(0) of a cycle and has not finished
\* its truncate: a cursor movement by load() now lands inside the cycle
AfterSeek(e) == eng[e].fpc \in {"encode", "write", "truncate"}


\* load() is over: inside __init__ a raise abandons the object, a return
\* starts the writer thread in the writing modes; on demand it goes back to
\* the caller
LoadDone(e, ne, res) ==
    IF cop = "open"
    THEN IF res = "ok"
         THEN /\ eng' = [eng EXCEPT ![e] =
                    [ne EXCEPT !.st = "live",
                               !.fpc = IF ne._mode \in WritingModes
                                       THEN "spawned" ELSE "none"]]
              /\ Return("open", "ok", None)
         ELSE /\ eng' = [eng EXCEPT ![e] = NoEngine]
              /\ Return("open", res, None)
    ELSE /\ eng' = [eng EXCEPT ![e] = ne]
         /\ Return("load", res, None)

\* on-demand load(): the call itself
LoadCall(e) ==
    /\ CanCall
    /\ eng[e].st = "live"
    /\ ncalls' = ncalls + 1
    /\ cop' = "load"
    /\ cpc' = "load_size"
    /\ ce' = e
    /\ last' = NoLast
    /\ hist' = [hist EXCEPT ![e].loaded = TRUE]
    /\ UNCHANGED << files, eng, ck >>

\* seek(0, SEEK_END); size = tell(); if not size: return None
LoadSize(e) ==
    /\ cpc = "load_size"
    /\ ce = e
    /\ UNCHANGED << files, ce, ncalls, ck >>
    /\ IF eng[e]._handle # "open"
       THEN /\ LoadDone(e, eng[e], "ValueError")
            /\ UNCHANGED hist
       ELSE LET size == Len(files[Db])
                ne == [eng[e] EXCEPT !.pos = size]
            IN  /\ hist' = [hist EXCEPT ![e].emptyAtOpen =
                                            IF cop = "open" THEN size = 0 ELSE @,
                                   ![e].moved = @ \/ AfterSeek(e)]
                /\ IF size = 0
                   THEN LoadDone(e, ne, "ok")
                   ELSE /\ eng' = [eng EXCEPT ![e] = ne]
                        /\ cpc' = "load_seek"
                        /\ UNCHANGED << cop, last >>

\* self._handle.seek(0)
LoadSeek(e) ==
    /\ cpc = "load_seek"
    /\ ce = e
    /\ eng' = [eng EXCEPT ![e].pos = 0]
    /\ cpc' = "load_read"
    /\ hist' = [hist EXCEPT ![e].moved = @ \/ AfterSeek(e)]
    /\ UNCHANGED << files, cop, ce, last, ncalls, ck >>

\* db_bytes = self._handle.read(), then the decode chain and the assignment
LoadRead(e) ==
    /\ cpc = "load_read"
    /\ ce = e
    /\ hist' = [hist EXCEPT ![e].moved = @ \/ AfterSeek(e)]
    /\ UNCHANGED << files, ce, ncalls, ck >>
    /\ LET E == eng[e]
           bytes == ReadFrom(files[Db], E.pos)
           after == [E EXCEPT !.pos = IF E.pos > Len(files[Db]) THEN @ ELSE Len(files[Db])]
           d == Decode(bytes, E.compression, E.encryption, E.raw_encryption_key, E.decPos)
           fed == [after EXCEPT !.decPos = IF E.encryption THEN @ + Len(bytes) ELSE @]
       IN  IF E._mode = "w"
           THEN LoadDone(e, E, "UnsupportedOperation")
           ELSE IF Len(bytes) = 0
           THEN LoadDone(e, [after EXCEPT !._data = None], "ok")
           ELSE IF IsText(E._mode) /\ (E.compression \/ E.encryption)
           THEN LoadDone(e, after, "TypeError")
           ELSE IF d = Garbage
           THEN LoadDone(e, fed, "DecodeError")
           ELSE LoadDone(e, [fed EXCEPT !._data = d], "ok")

\* ---- read / write -------------------------------------------------------
\* read(): return self._data
Read(e) ==
    /\ CanCall
    /\ eng[e].st = "live"
    /\ ncalls' = ncalls + 1
    /\ ce' = e
    /\ Return("read", "ok", eng[e]._data)
    /\ UNCHANGED << files, eng, ck, hist >>

\* variant: write() without the access-mode check
WriteStoreNoCheck(e, d) ==
    /\ CanCall
    /\ eng[e].st = "live"
    /\ ncalls' = ncalls + 1
    /\ ce' = e
    /\ eng' = [eng EXCEPT ![e]._data = d]
    /\ hist' = [hist EXCEPT ![e].wrote = d]
    /\ cop' = "write"
    /\ cpc' = "write_flag"
    /\ last' = NoLast
    /\ UNCHANGED << files, ck >>

\* write(data): the mode check and self._data = data
WriteStore(e, d) ==
    /\ CanCall
    /\ eng[e].st = "live"
    /\ ncalls' = ncalls + 1
    /\ ce' = e
    /\ UNCHANGED << files, ck >>
    /\ IF eng[e]._mode \notin WritingModes
       THEN /\ Return("write", "PermissionError", None)
            /\ UNCHANGED << eng, hist >>
       ELSE /\ eng' = [eng EXCEPT ![e]._data = d]
            /\ hist' = [hist EXCEPT ![e].wrote = d]
            /\ cop' = "write"
            /\ cpc' = "write_flag"
            /\ last' = NoLast

\* write(data): self._changed = True
WriteFlag(e) ==
    /\ cpc = "write_flag"
    /\ ce = e
    /\ eng' = [eng EXCEPT ![e]._changed = TRUE]
    /\ Return("write", "ok", None)
    /\ UNCHANGED << files, ce, ncalls, ck, hist >>

\* ---- close --------------------------------------------------------------
\* close(): the call itself
CloseCall(e) ==
    /\ CanCall
    /\ eng[e].st = "live"
    /\ ncalls' = ncalls + 1
    /\ cop' = "close"
    /\ cpc' = "close_spin"
    /\ ce' = e
    /\ last' = NoLast
    /\ UNCHANGED << files, eng, ck, hist >>

\* variant: close() that does not wait for the dirty flag
CloseSpinNoWait(e) ==
    /\ cpc = "close_spin"
    /\ ce = e
    /\ cpc' = "close_stop"
    /\ UNCHANGED << files, eng, cop, ce, last, ncalls, ck, hist >>

\* while self._changed: ...
CloseSpin(e) ==
    /\ cpc = "close_spin"
    /\ ce = e
    /\ ~eng[e]._changed
    /\ cpc' = "close_stop"
    /\ UNCHANGED << files, eng, cop, ce, last, ncalls, ck, hist >>

\* variant: close() that leaves _running set
CloseStopKeepsRunning(e) ==
    /\ cpc = "close_stop"
    /\ ce = e
    /\ cpc' = "close_acquire"
    /\ UNCHANGED << files, eng, cop, ce, last, ncalls, ck, hist >>

\* self._running = False
CloseStop(e) ==
    /\ cpc = "close_stop"
    /\ ce = e
    /\ eng' = [eng EXCEPT ![e]._running = FALSE]
    /\ cpc' = "close_acquire"
    /\ UNCHANGED << files, cop, ce, last, ncalls, ck, hist >>

\* variant: close() that closes the handle without taking the shutdown lock
CloseAcquireNoLock(e) ==
    /\ cpc = "close_acquire"
    /\ ce = e
    /\ UNCHANGED << files, ce, ncalls, ck >>
    /\ IF eng[e]._handle = "closed"
       THEN /\ UNCHANGED << eng, hist >>
            /\ Return("close", "ValueError", None)
       ELSE /\ eng' = [eng EXCEPT ![e]._handle = "closed"]
            /\ Return("close", "ok", None)
            /\ hist' = [hist EXCEPT ![e].closes = @ + 1]

\* self._shutdown_lock.acquire(); then flush and close the handle
CloseAcquire(e) ==
    /\ cpc = "close_acquire"
    /\ ce = e
    /\ ~eng[e].locked
    /\ UNCHANGED << files, ce, ncalls, ck >>
    /\ IF eng[e]._handle = "closed"
       THEN /\ eng' = [eng EXCEPT ![e].locked = TRUE]
            /\ Return("close", "ValueError", None)
            /\ UNCHANGED hist
       ELSE /\ eng' = [eng EXCEPT ![e].locked = TRUE, ![e]._handle = "closed"]
            /\ Return("close", "ok", None)
            /\ hist' = [hist EXCEPT ![e].closes = @ + 1]

\* ---- __file_writer ------------------------------------------------------
\* self._shutdown_lock.acquire()
FwAcquire(e) ==
    /\ eng[e].fpc = "spawned"
    /\ ~eng[e].locked
    /\ eng' = [eng EXCEPT ![e].locked = TRUE, ![e].fpc = "loop"]
    /\ UNCHANGED << files, cop, cpc, ce, last, ncalls, ck, hist >>

\* one test of the loop: while self._running: if self._changed:
\* self._changed = False; after the loop self._shutdown_lock.release().
\* (_running is cleared only by close(), which has seen _changed false and
\* runs no write(), so reading the two flags in one step loses no outcome.)
FwLoop(e) ==
    /\ eng[e].fpc = "loop"
    /\ eng' = [eng EXCEPT ![e] =
                 IF ~@._running THEN [@ EXCEPT !.fpc = "stopped", !.locked = FALSE]
                 ELSE IF @._changed THEN [@ EXCEPT !._changed = FALSE, !.fpc = "seek"]
                 ELSE @]
    /\ UNCHANGED << files, cop, cpc, ce, last, ncalls, ck, hist >>

\* self._handle.seek(0)
FwSeek(e) ==
    /\ eng[e].fpc = "seek"
    /\ eng' = [eng EXCEPT ![e] =
                 IF @._handle = "open" THEN [@ EXCEPT !.pos = 0, !.fpc = "encode"]
                 ELSE [@ EXCEPT !.fpc = "crashed"]]
    /\ UNCHANGED << files, cop, cpc, ce, last, ncalls, ck, hist >>

\* serialized = ... dumps(self._data) ..., through the one encryptor context
FwEncode(e) ==
    /\ eng[e].fpc = "encode"
    /\ LET E == eng[e]
           s == Encode(E._data, E.compression, E.encryption, E.raw_encryption_key, E.encPos)
       IN  /\ eng' = [eng EXCEPT ![e].serialized = s,
                                 ![e].encPos = IF E.encryption THEN @ + Len(s) ELSE @,
                                 ![e].fpc = "write"]
           /\ hist' = [hist EXCEPT ![e].fdoc = E._data]
    /\ UNCHANGED << files, cop, cpc, ce, last, ncalls, ck >>

\* variant: the dirty flag is cleared after the write instead of before the
\* document is read
FwWriteThenClear(e) ==
    /\ eng[e].fpc = "write"
    /\ LET E == eng[e] IN
       IF IsText(E._mode) \/ E._handle # "open"
       THEN /\ eng' = [eng EXCEPT ![e].fpc = "crashed"]
            /\ UNCHANGED << files, ck >>
       ELSE /\ files' = [files EXCEPT ![Db] = WriteAt(@, E.pos, E.serialized)]
            /\ eng' = [eng EXCEPT ![e].pos = @ + Len(E.serialized),
                                  ![e]._changed = FALSE,
                                  ![e].fpc = "truncate"]
            /\ ck' = IF cop = "ck" /\ files'[Db] # files[Db]
                     THEN [ck EXCEPT !.flushed = TRUE] ELSE ck
    /\ UNCHANGED << cop, cpc, ce, last, ncalls, hist >>

\* self._handle.write(serialized); flush(); fsync(); a text handle refuses
\* bytes and the thread dies holding the shutdown lock
FwWrite(e) ==
    /\ eng[e].fpc = "write"
    /\ LET E == eng[e] IN
       IF IsText(E._mode) \/ E._handle # "open"
       THEN /\ eng' = [eng EXCEPT ![e].fpc = "crashed"]
            /\ UNCHANGED << files, ck >>
       ELSE /\ files' = [files EXCEPT ![Db] = WriteAt(@, E.pos, E.serialized)]
            /\ eng' = [eng EXCEPT ![e].pos = @ + Len(E.serialized), ![e].fpc = "truncate"]
            /\ ck' = IF cop = "ck" /\ files'[Db] # files[Db]
                     THEN [ck EXCEPT !.flushed = TRUE] ELSE ck
    /\ UNCHANGED << cop, cpc, ce, last, ncalls, hist >>

\* self._handle.truncate()
FwTruncate(e) ==
    /\ eng[e].fpc = "truncate"
    /\ LET E == eng[e] IN
       IF E._handle # "open"
       THEN /\ eng' = [eng EXCEPT ![e].fpc = "crashed"]
            /\ UNCHANGED << files, ck, hist >>
       ELSE /\ files' = [files EXCEPT ![Db] = TruncateAt(@, E.pos)]
            /\ eng' = [eng EXCEPT ![e].fpc = "loop"]
            /\ hist' = [hist EXCEPT ![e].moved = FALSE]
            /\ ck' = IF cop = "ck" /\ files'[Db] # files[Db]
                     THEN [ck EXCEPT !.flushed = TRUE] ELSE ck
    /\ UNCHANGED << cop, cpc, ce, last, ncalls >>

\* ---- change_encryption_key -----------------------------------------------
\* access_mode of the clone storage: TinyDB(...) passes none, so the default
CloneMode == "r"

\* new_db_path = self._path + "_clone"; new_encryption_key = __reset_hash(...)
CKCall(e, nk) ==
    /\ CanCall
    /\ eng[e].st = "live"
    /\ ncalls' = ncalls + 1
    /\ cop' = "ck"
    /\ cpc' = "ck_open"
    /\ ce' = e
    /\ last' = NoLast
    /\ ck' = [ key |-> ResetHash(nk), before |-> files[Db], flushed |-> FALSE ]
    /\ UNCHANGED << files, eng, hist >>

\* change_encryption_key returns False after catching exc
CKFail(e, exc) ==
    /\ last' = [ op |-> "ck", res |-> "False", val |-> None, exc |-> exc ]
    /\ cop' = "none"
    /\ cpc' = "idle"
    /\ ck' = NoCk

\* db_new_pw = TinyDB(encryption_key=..., path=new_db_path, storage=...): a
\* storage with the default mode, no encryption and no compression, whose
\* __init__ opens the clone path and loads it
CKOpenClone(e) ==
    /\ cpc = "ck_open"
    /\ ce = e
    /\ UNCHANGED << files, eng, ce, ncalls, hist >>
    /\ IF ~Touches(CloneMode) /\ files[DbClone] = NoFile
       THEN CKFail(e, "FileNotFoundError")
       ELSE IF Len(files[DbClone]) > 0
               /\ Decode(files[DbClone], FALSE, FALSE, None, 0) = Garbage
       THEN CKFail(e, "DecodeError")
       ELSE /\ cpc' = "ck_copy"
            /\ UNCHANGED << cop, last, ck >>

\* variant: copyfile(new_db_path, self.path) placed before the copy into the
\* clone, so the original is overwritten on the failure path
CKCopyEarlyCopyfile(e) ==
    /\ cpc = "ck_copy"
    /\ ce = e
    /\ files' = [files EXCEPT ![Db] = files[DbClone], ![DbClone] = NoFile]
    /\ CKFail(e, "PermissionError")
    /\ UNCHANGED << eng, ce, ncalls, hist >>

\* self._handle.flush(); db_new_pw.storage.write(self.read()) raises in the
\* clone's read-only mode, so the statements after it (close both, copyfile,
\* __reset_handle) are never reached; finally: remove(new_db_path)
CKCopy(e) ==
    /\ cpc = "ck_copy"
    /\ ce = e
    /\ files' = [files EXCEPT ![DbClone] = NoFile]
    /\ CKFail(e, IF eng[e]._handle # "open" THEN "ValueError"
                 ELSE IF CloneMode \notin WritingModes THEN "PermissionError"
                 ELSE "none")
    /\ UNCHANGED << eng, ce, ncalls, hist >>

\* ---- the system ----------------------------------------------------------
Caller ==
    \E e \in Engines :
        \/ \E m \in AccessModes, comp \in BOOLEAN, enc \in BOOLEAN, k \in Keys \cup {None} :
              Open(e, m, comp, enc, k)
        \/ LoadCall(e)
        \/ LoadSize(e)
        \/ LoadSeek(e)
        \/ LoadRead(e)
        \/ Read(e)
        \/ \E d \in Docs : WriteStore(e, d)
        \/ WriteFlag(e)
        \/ CloseCall(e)
        \/ CloseSpin(e)
        \/ CloseStop(e)
        \/ CloseAcquire(e)
        \/ \E nk \in NewKeys : CKCall(e, nk)
        \/ CKOpenClone(e)
        \/ CKCopy(e)

FileWriter ==
    \E e \in Engines :
        \/ FwAcquire(e)
        \/ FwLoop(e)
        \/ FwSeek(e)
        \/ FwEncode(e)
        \/ FwWrite(e)
        \/ FwTruncate(e)

Next == Caller \/ FileWriter

Spec == Init /\ [][Next]_vars

\* ---- properties -----------------------------------------------------------
RW(e) == eng[e].st = "live" /\ eng[e]._mode \in WritingModes
RO(e) == eng[e].st = "live" /\ eng[e]._mode \in {"r", "rb"}
Alone(e) == \A o \in Engines \ {e} : ~hist[o].tried

\* the step in which method op returns to the caller
Returns(op) == cop = op /\ cop' = "none"

\* a step taken by the caller (not by a writer thread)
CallerStep == ncalls' # ncalls \/ cpc' # cpc \/ cop' # cop \/ last' # last

\* C1: No lost writes. When close() returns on a ReadWrite engine (the only
\* engine on the path) after write(D_1) .. write(D_N), N >= 1, and no load()
\* in between, the file decodes to D_N for an engine opened afresh with the
\* same configuration and key.
C1_NoLostWrites ==
    [][ \A e \in Engines :
          ( /\ Returns("close") /\ ce = e /\ last'.res = "ok"
            /\ RW(e) /\ Alone(e)
            /\ hist[e].wrote # None /\ ~hist[e].loaded )
          => DecodeFresh(files'[Db], eng'[e]) = hist[e].wrote ]_vars

\* C2: Round trip. The bytes a flush cycle has written for document D (the
\* first cycle and every later one) are decoded back to D by load() of an
\* engine opened with the same configuration and key.
C2_RoundTrip ==
    \A e \in Engines :
        eng[e].fpc = "truncate" => DecodeFresh(eng[e].serialized, eng[e]) = hist[e].fdoc

\* C3: close() never returns while the dirty flag is true: in the step in
\* which close() returns on an engine, _changed of that engine is false.
C3_CloseNotDirty ==
    [][ \A e \in Engines : (Returns("close") /\ ce = e) => ~eng'[e]._changed ]_vars

\* C3 witness: close() has returned on a ReadWrite engine that was written to
C3_Witness ==
    /\ last.op = "close" /\ last.res = "ok"
    /\ RW(ce) /\ hist[ce].wrote # None /\ ~eng[ce]._changed

\* C4: Idempotent close. A second close() on an engine returns: when it
\* reaches the acquisition of the shutdown lock, the lock is free.
C4_IdempotentClose ==
    \A e \in Engines :
        (cop = "close" /\ cpc = "close_acquire" /\ ce = e /\ hist[e].closes >= 1)
        => ~eng[e].locked

\* C5: Mutual exclusion on a path. At most one live engine (constructed, its
\* handle not yet closed) holds the path open.
C5_MutualExclusion ==
    Cardinality({e \in Engines : eng[e].st = "live" /\ eng[e]._handle = "open"}) <= 1

\* C6: ReadOnly enforcement. An engine opened with 'r' or 'rb' has no writer
\* thread and a clean flag; every write() on it fails with the read-only
\* error and leaves the object and the files as they were; no step the caller
\* takes on it changes the file.
C6_ReadOnly ==
    /\ [](\A e \in Engines : RO(e) => eng[e].fpc = "none" /\ ~eng[e]._changed)
    /\ [][ \A e \in Engines :
            /\ ( RO(e) /\ ncalls' = ncalls + 1 /\ ce' = e
                  /\ (cop' = "write" \/ last'.op = "write") )
               => ( last'.res = "PermissionError" /\ cop' = "none"
                    /\ eng'[e] = eng[e] /\ files' = files )
            /\ (RO(e) /\ ce' = e /\ CallerStep) => files'[Db] = files[Db] ]_vars

\* C6 witness: write() has failed on a read-only engine
C6_Witness ==
    last.op = "write" /\ last.res = "PermissionError" /\ RO(ce)

\* C7: Every load() that returns replaces the in-memory document with the
\* decode of the file's content: None for a zero-length file, the decoded
\* document otherwise.
C7_LoadReplaces ==
    [][ \A e \in Engines :
          (Returns("load") /\ ce = e /\ last'.res = "ok")
          => eng'[e]._data = IF files'[Db] = << >> THEN None
                             ELSE DecodeFresh(files'[Db], eng'[e]) ]_vars

\* C8: Empty-file semantics at open. An engine constructed on a zero-length
\* (or freshly created) file has no document, and read() returns None on it,
\* until the first write() (no load() having been called since).
C8_EmptyOpen ==
    \A e \in Engines :
        ( eng[e].st = "live" /\ hist[e].emptyAtOpen
          /\ hist[e].wrote = None /\ ~hist[e].loaded )
        => /\ eng[e]._data = None
           /\ (last.op = "read" /\ ce = e) => last.val = None

\* C8 witness: read() has returned on an engine opened on an empty file
C8_Witness ==
    /\ last.op = "read" /\ eng[ce].st = "live" /\ hist[ce].emptyAtOpen
    /\ hist[ce].wrote = None /\ ~hist[ce].loaded

\* C9: change_encryption_key on an open ReadWrite engine with encryption and
\* no I/O fault returns success, with the document under the new key in the
\* original path, the handle open and the clone file gone.
C9_ChangeKey ==
    ( /\ last.op = "ck" /\ RW(ce) /\ eng[ce].encryption
      /\ last.exc \notin {"FileNotFoundError", "DecodeError", "ValueError"} )
    => /\ last.res = "True"
       /\ files[DbClone] = NoFile
       /\ eng[ce]._handle = "open"
       /\ \E nk \in NewKeys :
             Decode(files[Db], eng[ce].compression, TRUE, ResetHash(nk), 0) = eng[ce]._data

C11_InvalidModeFatal ==
    \A e \in Engines : eng[e].st # "none" => eng[e]._mode \in ValidModes

\* C12: Construction with encryption requested and no key raises the
\* configuration error (AttributeError) before any file is created or opened
\* and before any writer thread is started: the raising step changes neither
\* the files nor any engine, and no construction without a key gets as far as
\* opening the file.
C12_KeyRequired ==
    /\ [](\A e \in Engines : ~hist[e].keyless)
    /\ [][ (ncalls' = ncalls + 1 /\ last'.res = "AttributeError")
            => (last'.op = "open" /\ files' = files /\ eng' = eng /\ cop' = "none") ]_vars

\* C12 witness: a construction has failed with the configuration error
C12_Witness ==
    last.op = "open" /\ last.res = "AttributeError" /\ eng[ce].st = "none"

\* the caller is inside write() on e (document stored, flag not yet set)
InWrite(e) == cop = "write" /\ ce = e

C14_DirtyFlagMeaning ==
    \A e \in Engines :
        ( /\ RW(e) /\ Alone(e) /\ ~eng[e].encryption
          /\ eng[e]._handle = "open"
          /\ hist[e].wrote # None /\ ~InWrite(e)
          /\ ~eng[e]._changed )
        => DecodeFresh(files[Db], eng[e]) = eng[e]._data

\* C15: no torn reads. For an engine that is alone on its path, in a binary
\* writing mode and without encryption: whenever the writer thread is between
\* cycles (or has stopped) the file is empty or holds exactly one complete
\* encoding of one document written from offset 0, and no load() of the engine
\* fails to decode what it read.
C15_NoTornReads ==
    \A e \in Engines :
        ( RW(e) /\ Alone(e) /\ ~eng[e].encryption /\ ~IsText(eng[e]._mode) )
        => /\ eng[e].fpc \in {"loop", "stopped"}
              => \/ files[Db] = << >>
                 \/ \E d \in Docs :
                       files[Db] = Encode(d, eng[e].compression, FALSE,
                                          eng[e].raw_encryption_key, 0)
           /\ ~(last.op = "load" /\ ce = e /\ last.res = "DecodeError")

\* C16: the writer thread never uses the file handle after close() has closed
\* it. Whenever the handle of an engine is closed, its writer thread was never
\* started, has left its loop, or is still waiting for the shutdown lock that
\* close() holds; it is at no step of a cycle, and no writer step ever changes
\* the file or the cursor of an engine whose handle is closed.
C16_NoUseAfterClose ==
    /\ [](\A e \in Engines :
            eng[e]._handle = "closed"
            => \/ eng[e].fpc \in {"none", "stopped"}
               \/ eng[e].fpc = "spawned" /\ eng[e].locked)
    /\ [][ \A e \in Engines :
              (eng[e]._handle = "closed" /\ eng'[e].fpc # eng[e].fpc)
              => (files' = files /\ eng'[e].pos = eng[e].pos) ]_vars

\* close() has closed the handle of an engine whose writer thread persisted a
\* document and then stopped, or was spawned and never got the lock
C16_Witness ==
    \E e \in Engines :
        /\ eng[e]._handle = "closed" /\ eng[e]._mode \in WritingModes
        /\ hist[e].closes >= 1
        /\ \/ eng[e].fpc = "stopped" /\ hist[e].fdoc # None
           \/ eng[e].fpc = "spawned"

\* C17: close() waits for the writer thread to stop. Whenever close() returns
\* on a ReadWrite engine (alone on its path), the writer thread of that engine
\* has left its loop and released the shutdown lock: it is stopped, neither
\* running nor blocked.
C17_CloseWaitsForStopped ==
    [][ (Returns("close") /\ last'.res = "ok" /\ RW(ce) /\ Alone(ce))
        => eng'[ce].fpc = "stopped" ]_vars

\* C18: after every completed cycle of the writer thread during which no
\* load() step of the engine moved the cursor, the file content is exactly the
\* bytes that cycle encoded and wrote, from offset 0 and with no bytes left
\* over from an earlier, longer content.
C18_TruncateExact ==
    [][ \A e \in Engines :
          ( /\ eng[e].fpc = "truncate" /\ eng'[e].fpc = "loop"
            /\ ~hist[e].moved )
          => files'[Db] = eng[e].serialized ]_vars

\* C19: termination of close(). A close() call that waits for the shutdown
\* lock (and whose writer thread has not died of a fault) waits for a lock
\* held by a writer thread that is still in its loop, which under fairness
\* sees _running false and releases it; the call is never left waiting for a
\* lock that nobody will release.
C19_CloseTerminates ==
    ( /\ cop = "close" /\ cpc = "close_acquire"
      /\ eng[ce].locked /\ eng[ce].fpc # "crashed" )
    => eng[ce].fpc \in {"loop", "seek", "encode", "write", "truncate"}

\* C20: once close() has returned on an engine, nothing changes the file
\* through that engine any more: _running stays false, the writer thread is
\* at no step of a cycle (it never existed, has stopped, or waits for ever for
\* the shutdown lock), no step of the engine changes the file, and a document
\* stored by a later write() is never encoded for the file.
C20_FrozenAfterClose ==
    /\ [](\A e \in Engines :
            hist[e].closes >= 1
            => /\ ~eng[e]._running
               /\ eng[e].locked
               /\ eng[e].fpc \in {"none", "spawned", "stopped"})
    /\ [][ \A e \in Engines :
              ( /\ hist[e].closes >= 1
                /\ \/ ce' = e /\ CallerStep
                   \/ eng'[e] # eng[e] )
              => /\ files'[Db] = files[Db]
                 /\ hist'[e].fdoc = hist[e].fdoc ]_vars

\* a write() that returned normally on an engine already closed: the document
\* is stored and the flag is set, and the file holds something else
C20_Witness ==
    \E e \in Engines :
        /\ hist[e].closes >= 1 /\ ce = e
        /\ last.op = "write" /\ last.res = "ok"
        /\ eng[e]._changed /\ eng[e]._data = hist[e].wrote
        /\ hist[e].fdoc # hist[e].wrote

TypeOK == ncalls \in 0 .. MaxCalls
====
